---- MODULE Spec2Model ----
(***************************************************************************)
(* Verification model of the Tmux-Orchestrator shell tooling:              *)
(*   - send-qwen-message.sh   (src/unnamed/part_023)                       *)
(*   - show_tmux_sessions.sh  (src/unnamed/part_000, lines 1-182)          *)
(*   - unified_dashboard.sh   (src/unified_dashboard.sh)                   *)
(*   - blue_green_deploy.sh   (src/blue_green_deploy.sh)                   *)
(* Strings that the scripts take apart (agent ids, grep patterns, lines of *)
(* tool output) are sequences of tokens, so that the regular expressions   *)
(* and pipelines of the scripts are computed, not assumed.                 *)
(***************************************************************************)
EXTENDS Integers, Sequences, FiniteSets, TLC

VARIABLES
    registry,   \* agents known to qwen_control.py (the agent table)
    msgLog,     \* ~/.tmux_orchestrator/logs/message_log.txt, one record per line
    inbox,      \* messages accepted by `qwen_control.py message`, in order
    proc,       \* one send-qwen-message.sh process per caller
    tmux,       \* the tmux server: its sessions, their windows, the keys sent
    view,       \* the show_tmux_sessions.sh process
    dash,       \* the unified_dashboard.sh process
    commits,    \* the git commit graph: commit i has commits[i].parents
    refs,       \* the branches: main, dev and their copies on origin
    head,       \* the branch checked out in the working copy
    stateFile,  \* whether /tmp/qwen_deployment_status exists
    dep,        \* the blue_green_deploy.sh process
    health,     \* the HealthMonitor / GapDetector: workers, clock, gap events
    sched,      \* the Scheduler: clock, pending check-ins, firings
    mon,        \* the monitor_agents.sh process
    setup,      \* the setup_qwen_orchestrator.sh process and what it installs
    search      \* the SearchEvent component: its state and requests in flight

msgVars == <<registry, msgLog, inbox, proc>>

tmuxVars == <<tmux, view, dash>>

depVars == <<commits, refs, head, stateFile, dep>>

extVars == <<health, sched, mon, setup, search>>

vars == <<msgVars, tmuxVars, depVars, extVars>>

notMsg == <<tmuxVars, depVars, extVars>>

notTmux == <<msgVars, depVars, extVars>>

notDep == <<msgVars, tmuxVars, extVars>>

shellVars == <<msgVars, tmuxVars, depVars>>

notHealth == <<shellVars, sched, mon, setup, search>>

notSched == <<shellVars, health, mon, setup, search>>

notMon == <<shellVars, health, sched, setup, search>>

notSetup == <<shellVars, health, sched, mon, search>>

notSearch == <<shellVars, health, sched, mon, setup>>

----------------------------------------------------------------------------
(* Bounds of the model *)

MaxSends == 3      \* invocations of send-qwen-message.sh, all callers together
MaxRuns == 3       \* invocations of show_tmux_sessions.sh and unified_dashboard.sh
MaxDeployRuns == 3 \* invocations of blue_green_deploy.sh
MaxAuthored == 2   \* commits pushed to dev or made on main, besides the root commit
MaxClock == 8      \* seconds the health monitor's clock runs
MaxCheckIns == 2   \* check-ins created by schedule
MaxSchedClock == 4 \* seconds the scheduler's clock runs
MaxMonRuns == 2    \* invocations of monitor_agents.sh
MaxRefreshes == 2  \* turns of the monitoring loop in one invocation
MaxSetupRuns == 1  \* invocations of setup_qwen_orchestrator.sh
MaxKeystrokes == 4 \* changes of the search box

----------------------------------------------------------------------------
(* send-qwen-message.sh *)

NotExited == -1

\* the agents of the deployment and their place in the hierarchy (QWEN.md)
Agents == {"pm_proj", "dev_a", "dev_b"}

Callers == {"dev_a", "orchestrator"}

Role(a) ==
    CASE a = "orchestrator" -> "Orchestrator"
      [] a = "pm_proj"      -> "Manager"
      [] OTHER              -> "Executor"

ManagerOf(a) == IF Role(a) = "Executor" THEN "pm_proj" ELSE "orchestrator"

\* session and window an agent runs in, as `qwen_control.py list` prints them
AgentSession(a) == "proj"

AgentWindow(a) ==
    CASE a = "pm_proj" -> "0"
      [] a = "dev_a"   -> "1"
      [] OTHER         -> "2"

Digits == {"0", "1", "2"}

\* values of $1: agent ids, session:window targets, options, the empty string
TargetArgs ==
    { <<"pm_proj">>, <<"dev_b">>, <<"proj", ":", "2">>,
      <<"--help">>, <<"--version">>, <<"--health">>, <<>> }

MessageArgs == { <<"msg">>, <<>> }

\* argument vectors of an invocation: none, one or two arguments
Argvs ==
    { <<>> } \cup { <<t>> : t \in { <<"--help">>, <<"-h">>, <<"--version">>, <<"pm_proj">> } }
             \cup { <<t, m>> : t \in TargetArgs, m \in MessageArgs }

\* AGENT_ID="$1"; shift; MESSAGE="$*"
AGENT_ID(argv) == IF Len(argv) >= 1 THEN argv[1] ELSE <<>>

MESSAGE(argv) == IF Len(argv) >= 2 THEN argv[2] ELSE <<>>

\* if [ $# -lt 2 ]; then ... exit 1
UsageGuard(argv) == IF Len(argv) < 2 THEN 1 ELSE NotExited

\* case "$AGENT_ID" in --help|-h) exit 0 ;; --health) exit $? ;; --version) exit 0
SpecialCommand(argv, healthy) ==
    CASE AGENT_ID(argv) \in {<<"--help">>, <<"-h">>} -> 0
      [] AGENT_ID(argv) = <<"--version">> -> 0
      [] AGENT_ID(argv) = <<"--health">>  -> IF healthy THEN 0 ELSE 1
      [] OTHER                            -> NotExited

\* if [ -z "$AGENT_ID" ] ... exit 1;  if [ -z "$MESSAGE" ] ... exit 1
ValidateInputs(argv) ==
    IF AGENT_ID(argv) = <<>> THEN 1
    ELSE IF MESSAGE(argv) = <<>> THEN 1
    ELSE NotExited

\* the part of the script that runs before main: exit status, or NotExited
Preamble(argv, healthy) ==
    IF UsageGuard(argv) # NotExited THEN UsageGuard(argv)
    ELSE IF SpecialCommand(argv, healthy) # NotExited THEN SpecialCommand(argv, healthy)
    ELSE ValidateInputs(argv)

\* why the preamble ended the run (kept for the audit properties)
PreambleOutcome(argv) ==
    IF UsageGuard(argv) # NotExited THEN "usage"
    ELSE IF AGENT_ID(argv) \in { <<"--help">>, <<"-h">>, <<"--version">>, <<"--health">> }
         THEN "special"
    ELSE IF AGENT_ID(argv) = <<>> THEN "empty_agent"
    ELSE IF MESSAGE(argv) = <<>> THEN "empty_message"
    ELSE "none"

\* variant: the new line is written ahead of the existing ones
log_message_prepend(log, rec) == <<rec>> \o log

\* echo "[date] $1" >> "$LOG_FILE"
log_message(log, rec) == Append(log, rec)

LogRec(c, p, kind, agent) ==
    [caller |-> c, n |-> p.n, kind |-> kind, agent |-> agent,
     target |-> AGENT_ID(p.argv), body |-> MESSAGE(p.argv)]

\* exit status of `qwen_control.py info <id>`: 0 only for a registered agent
InfoOutcomes(reg, id) ==
    IF \E a \in reg : id = <<a>> THEN {TRUE, FALSE} ELSE {FALSE}

\* exit status of `qwen_control.py message <id> <message>`; the command line
\* carries no sender, so the outcome cannot depend on who is calling
MessageOutcomes(reg, id) ==
    IF \E a \in reg : id = <<a>> THEN {TRUE, FALSE} ELSE {FALSE}

\* [[ "$session_window" =~ ^([^:]+):([0-9]+)$ ]]
IsSessionWindow(t) ==
    /\ Len(t) = 3
    /\ t[1] # ":"
    /\ t[2] = ":"
    /\ t[3] \in Digits

\* lines of `qwen_control.py list --session <s>`: "<id> - <session>:<window> - ..."
ListLine(a) == <<a, " ", "-", " ", AgentSession(a), ":", AgentWindow(a), " ", "-">>

ListSession(reg, s) == { ListLine(a) : a \in { b \in reg : AgentSession(b) = s } }

Contains(line, pat) ==
    \E i \in 1..(Len(line) - Len(pat) + 1) :
        \A k \in 1..Len(pat) : line[i + k - 1] = pat[k]

\* grep -E "<pattern>": an argument that begins with '-' is taken as options,
\* grep prints a usage error and writes no line
GrepE(pat, lines) ==
    IF Len(pat) > 0 /\ pat[1] = "-" THEN {}
    ELSE { l \in lines : Contains(l, pat) }

\* awk '{print $1}'
AwkFirst(lines) == { <<l[1]>> : l \in lines }

\* find_agent_by_session_window: the set of ids it can print (empty: return 1)
find_agent_by_session_window(reg, t) ==
    IF IsSessionWindow(t)
    THEN AwkFirst(GrepE(<<"-", " ", t[1], ":", t[3], " ", "-">>, ListSession(reg, t[1])))
    ELSE {}

IdleProc == [pc |-> "idle", argv |-> <<>>, target |-> <<>>, found |-> {},
             handed |-> 0, status |-> NotExited, outcome |-> "none", n |-> 0,
             apiOk |-> FALSE]

MsgInit ==
    /\ registry = Agents
    /\ msgLog = <<>>
    /\ inbox = <<>>
    /\ proc = [c \in Callers |-> IdleProc]

Exit(p, code, outcome) == [p EXCEPT !.pc = "done", !.status = code, !.outcome = outcome]

RECURSIVE SumN(_, _)
SumN(p, cs) == IF cs = {} THEN 0
               ELSE LET c == CHOOSE x \in cs : TRUE IN p[c].n + SumN(p, cs \ {c})

\* invocations started so far
Invocations == SumN(proc, Callers)

\* lines 7-27 and 174-216: the caller starts the script; everything up to main
Invoke(c) ==
    /\ proc[c].pc \in {"idle", "done"}
    /\ Invocations < MaxSends
    /\ \E argv \in Argvs, healthy \in BOOLEAN :
         /\ (AGENT_ID(argv) # <<"--health">> => healthy)
         /\ LET p == [IdleProc EXCEPT !.argv = argv, !.n = proc[c].n + 1]
            IN  proc' = [proc EXCEPT ![c] =
                    IF Preamble(argv, healthy) # NotExited
                    THEN Exit(p, Preamble(argv, healthy), PreambleOutcome(argv))
                    ELSE [p EXCEPT !.pc = "main"]]
    /\ UNCHANGED <<registry, msgLog, inbox>>
    /\ UNCHANGED notMsg

\* main, line 121: log_message "Attempting to send message to ..."
MainLogAttempt(c) ==
    /\ proc[c].pc = "main"
    /\ msgLog' = log_message(msgLog, LogRec(c, proc[c], "ATTEMPT", AGENT_ID(proc[c].argv)))
    /\ proc' = [proc EXCEPT ![c].pc = "check"]
    /\ UNCHANGED <<registry, inbox>>
    /\ UNCHANGED notMsg

\* main, lines 124-127 with check_agent_exists
MainDirectLookup(c) ==
    /\ proc[c].pc = "check"
    /\ \E ok \in InfoOutcomes(registry, AGENT_ID(proc[c].argv)) :
         proc' = [proc EXCEPT ![c] =
            IF ok THEN [proc[c] EXCEPT !.pc = "send", !.target = AGENT_ID(proc[c].argv),
                                       !.found = proc[c].found \cup {AGENT_ID(proc[c].argv)}]
                  ELSE [proc[c] EXCEPT !.pc = "fallback"]]
    /\ UNCHANGED <<registry, msgLog, inbox>>
    /\ UNCHANGED notMsg

\* variant: an unresolved target is handed to the API all the same
MainFallback_sendUnresolved(c) ==
    /\ proc[c].pc = "fallback"
    /\ proc' = [proc EXCEPT ![c] = [proc[c] EXCEPT !.pc = "send",
                                                    !.target = AGENT_ID(proc[c].argv)]]
    /\ UNCHANGED <<registry, msgLog, inbox>>
    /\ UNCHANGED notMsg

\* main, lines 130-139 with find_agent_by_session_window
MainFallback(c) ==
    /\ proc[c].pc = "fallback"
    /\ LET ids == find_agent_by_session_window(registry, AGENT_ID(proc[c].argv))
       IN  IF ids # {}
           THEN \E r \in ids :
                  proc' = [proc EXCEPT ![c] = [proc[c] EXCEPT !.pc = "send", !.target = r,
                                                  !.found = proc[c].found \cup {r}]]
           ELSE proc' = [proc EXCEPT ![c].pc = "notfound"]
    /\ UNCHANGED <<registry, msgLog, inbox>>
    /\ UNCHANGED notMsg

\* send_api_message, lines 52-53: the call of `qwen_control.py message`
SendApiCall(c) ==
    /\ proc[c].pc = "send"
    /\ \E ok \in MessageOutcomes(registry, proc[c].target) :
         /\ inbox' = IF ok
                     THEN Append(inbox, [to |-> proc[c].target, body |-> MESSAGE(proc[c].argv),
                                         from |-> c, n |-> proc[c].n])
                     ELSE inbox
         /\ proc' = [proc EXCEPT ![c] = [proc[c] EXCEPT !.pc = "sendlog", !.apiOk = ok,
                                                        !.handed = proc[c].handed + 1]]
    /\ UNCHANGED <<registry, msgLog>>
    /\ UNCHANGED notMsg

\* send_api_message, lines 55-73, and `exit $?` in main
SendApiResult(c) ==
    /\ proc[c].pc = "sendlog"
    /\ msgLog' = log_message(msgLog,
                    LogRec(c, proc[c], IF proc[c].apiOk THEN "SUCCESS" ELSE "ERROR_SEND",
                           proc[c].target))
    /\ proc' = [proc EXCEPT ![c] =
                  Exit(proc[c], IF proc[c].apiOk THEN 0 ELSE 1,
                       IF proc[c].apiOk THEN "sent" ELSE "send_failed")]
    /\ UNCHANGED <<registry, inbox>>
    /\ UNCHANGED notMsg

\* variant: a dedicated exit status for "agent not found"
MainNotFound_exit2(c) ==
    /\ proc[c].pc = "notfound"
    /\ msgLog' = log_message(msgLog, LogRec(c, proc[c], "ERROR_NOT_FOUND", AGENT_ID(proc[c].argv)))
    /\ proc' = [proc EXCEPT ![c] = Exit(proc[c], 2, "not_found")]
    /\ UNCHANGED <<registry, inbox>>
    /\ UNCHANGED notMsg

\* main, lines 141-146: agent not found
MainNotFound(c) ==
    /\ proc[c].pc = "notfound"
    /\ msgLog' = log_message(msgLog, LogRec(c, proc[c], "ERROR_NOT_FOUND", AGENT_ID(proc[c].argv)))
    /\ proc' = [proc EXCEPT ![c] = Exit(proc[c], 1, "not_found")]
    /\ UNCHANGED <<registry, inbox>>
    /\ UNCHANGED notMsg

\* `qwen_control.py archive <agent_id>` run from the dashboard control panel
ArchiveAgent ==
    /\ "dev_b" \in registry
    /\ registry' = registry \ {"dev_b"}
    /\ UNCHANGED <<msgLog, inbox, proc>>
    /\ UNCHANGED notMsg

MsgNext ==
    \/ \E c \in Callers : Invoke(c)
    \/ \E c \in Callers : MainLogAttempt(c)
    \/ \E c \in Callers : MainDirectLookup(c)
    \/ \E c \in Callers : MainFallback(c)
    \/ \E c \in Callers : SendApiCall(c)
    \/ \E c \in Callers : SendApiResult(c)
    \/ \E c \in Callers : MainNotFound(c)
    \/ ArchiveAgent

----------------------------------------------------------------------------
(* The tmux server, as seen through the tmux commands the scripts run *)

\* SESSION_NAME of unified_dashboard.sh
SESSION_NAME == "qwen-unified-dashboard"

SessionNames == {"project-x", SESSION_NAME}

\* tmux has-session -t <n>
HasSession(t, n) == \E i \in DOMAIN t : t[i].name = n

SessionsNamed(t, n) == { i \in DOMAIN t : t[i].name = n }

\* tmux new-session -d -s <n> -n <w>: refused when a session <n> exists
NewSessionOk(t, n) == n # "" /\ ~HasSession(t, n)

NewSession(t, n, w) ==
    Append(t, [name |-> n, windows |-> << [name |-> w, keys |-> <<>>] >>])

\* tmux kill-session -t <n>
KillSession(t, n) == SelectSeq(t, LAMBDA s : s.name # n)

HasWindow(t, n, w) ==
    \E i \in DOMAIN t :
        t[i].name = n /\ \E j \in DOMAIN t[i].windows : t[i].windows[j].name = w

FirstWindow(ws, w) == CHOOSE j \in DOMAIN ws :
                          ws[j].name = w /\ \A k \in 1..(j - 1) : ws[k].name # w

\* tmux send-keys -t <n>:<w> <k> C-m   (needs the session and the window)
SendKeys(t, n, w, k) ==
    [i \in DOMAIN t |->
        IF t[i].name = n
        THEN [t[i] EXCEPT !.windows =
                 [j \in DOMAIN t[i].windows |->
                     IF j = FirstWindow(t[i].windows, w)
                     THEN [name |-> w, keys |-> Append(t[i].windows[j].keys, k)]
                     ELSE t[i].windows[j]]]
        ELSE t[i]]

\* tmux new-window -t <n> -n <w>   (needs the session)
NewWindow(t, n, w) ==
    [i \in DOMAIN t |->
        IF t[i].name = n
        THEN [t[i] EXCEPT !.windows = Append(t[i].windows, [name |-> w, keys |-> <<>>])]
        ELSE t[i]]

----------------------------------------------------------------------------
(* show_tmux_sessions.sh *)

\* attach: whether tmux attach-session has run, and on what; err: the error shown
IdleView == [pc |-> "idle", cmd |-> "", name |-> "", window |-> "", command |-> <<>>,
             status |-> NotExited, existed |-> FALSE, runs |-> 0,
             attach |-> "none", err |-> ""]

IdleDash == [pc |-> "idle", cmd |-> "", project |-> "", step |-> 0,
             status |-> NotExited, existed |-> FALSE, runs |-> 0,
             attach |-> "none", err |-> ""]

\* what tmux attach-session -t <n> does: it attaches and returns 0 after the
\* detach, or prints "can't find session" and returns 1
AttachSession(t, n, p) ==
    IF HasSession(t, n)
    THEN [p EXCEPT !.pc = "done", !.status = 0, !.attach = "existing"]
    ELSE [p EXCEPT !.pc = "done", !.status = 1, !.attach = "missing",
                   !.err = "can't find session"]

TmuxInit ==
    /\ tmux = <<>>
    /\ view = IdleView
    /\ dash = IdleDash

Runs == view.runs + dash.runs

\* local window_name=${2:-"Main"}
window_name(w) == IF w = "" THEN "Main" ELSE w

\* case "$1" in create) create_session "$2" "$3" "$4" ;; attach) attach_session "$2"
ViewInvoke ==
    /\ view.pc \in {"idle", "done"}
    /\ Runs < MaxRuns
    /\ \/ \E n \in SessionNames \cup {""}, w \in {"", "Developer"}, k \in {<<>>, <<"run">>} :
            view' = [IdleView EXCEPT !.pc = "create", !.cmd = "create", !.name = n,
                                     !.window = w, !.command = k, !.runs = view.runs + 1]
       \/ \E n \in SessionNames \cup {""} :
            view' = [IdleView EXCEPT !.pc = "attach_check", !.cmd = "attach", !.name = n,
                                     !.runs = view.runs + 1]
    /\ UNCHANGED <<tmux, dash>>
    /\ UNCHANGED notTmux

\* variant: the command is typed into the session also when it already existed
ViewCreate_sendAnyway ==
    /\ view.pc = "create"
    /\ IF view.name = ""
       THEN /\ view' = [view EXCEPT !.pc = "done", !.status = 1]
            /\ UNCHANGED tmux
       ELSE IF NewSessionOk(tmux, view.name)
       THEN /\ tmux' = NewSession(tmux, view.name, window_name(view.window))
            /\ view' = IF view.command # <<>>
                       THEN [view EXCEPT !.pc = "send_keys"]
                       ELSE [view EXCEPT !.pc = "done", !.status = 0]
       ELSE /\ tmux' = IF HasWindow(tmux, view.name, window_name(view.window))
                       THEN SendKeys(tmux, view.name, window_name(view.window), view.command)
                       ELSE tmux
            /\ view' = [view EXCEPT !.pc = "done", !.status = 1, !.existed = TRUE]
    /\ UNCHANGED dash
    /\ UNCHANGED notTmux

\* create_session, lines 89-104 and 111-116: the name check and tmux new-session
ViewCreate ==
    /\ view.pc = "create"
    /\ IF view.name = ""
       THEN /\ view' = [view EXCEPT !.pc = "done", !.status = 1]
            /\ UNCHANGED tmux
       ELSE IF NewSessionOk(tmux, view.name)
       THEN /\ tmux' = NewSession(tmux, view.name, window_name(view.window))
            /\ view' = IF view.command # <<>>
                       THEN [view EXCEPT !.pc = "send_keys"]
                       ELSE [view EXCEPT !.pc = "done", !.status = 0]
       ELSE /\ view' = [view EXCEPT !.pc = "done", !.status = 1, !.existed = TRUE]
            /\ UNCHANGED tmux
    /\ UNCHANGED dash
    /\ UNCHANGED notTmux

\* create_session, lines 105-112: tmux send-keys, then show_sessions, return 0;
\* under `set -e` a failing send-keys ends the script
ViewSendKeys ==
    /\ view.pc = "send_keys"
    /\ IF HasWindow(tmux, view.name, window_name(view.window))
       THEN /\ tmux' = SendKeys(tmux, view.name, window_name(view.window), view.command)
            /\ view' = [view EXCEPT !.pc = "done", !.status = 0]
       ELSE /\ view' = [view EXCEPT !.pc = "done", !.status = 1]
            /\ UNCHANGED tmux
    /\ UNCHANGED dash
    /\ UNCHANGED notTmux

\* attach_session, lines 69-79 and 82-85: the name check and tmux has-session
ViewAttachCheck ==
    /\ view.pc = "attach_check"
    /\ view' = IF view.name = ""
               THEN [view EXCEPT !.pc = "done", !.status = 1,
                                 !.err = "Session name required"]
               ELSE IF HasSession(tmux, view.name)
               THEN [view EXCEPT !.pc = "attach", !.existed = TRUE]
               ELSE [view EXCEPT !.pc = "done", !.status = 1, !.err = "Session not found"]
    /\ UNCHANGED <<tmux, dash>>
    /\ UNCHANGED notTmux

\* variant: the result of tmux attach-session is not looked at
ViewAttach_ignoreFailure ==
    /\ view.pc = "attach"
    /\ view' = [AttachSession(tmux, view.name, view) EXCEPT !.status = 0]
    /\ UNCHANGED <<tmux, dash>>
    /\ UNCHANGED notTmux

\* attach_session, lines 80-81: sleep 2, then tmux attach-session; under
\* `set -e` its failure is the script's exit status
ViewAttach ==
    /\ view.pc = "attach"
    /\ view' = AttachSession(tmux, view.name, view)
    /\ UNCHANGED <<tmux, dash>>
    /\ UNCHANGED notTmux

----------------------------------------------------------------------------
(* unified_dashboard.sh *)

\* the windows create_unified_dashboard sets up, in order
DashWindows(project) ==
    <<"Overview", "AgentOutput", "Execution">>
    \o (IF project # "" THEN <<"Project">> ELSE <<>>)
    \o <<"Logs", "Control", "Resources", "Chat", "Tasks">>

\* what is typed into a dashboard window
DashKeys(w, project) == IF w = "Project" THEN <<"watch", w, project>> ELSE <<"watch", w>>

\* case "$1" in start) create_unified_dashboard "$2" ... ;; attach) attach_dashboard
\* ;; kill) kill_dashboard
DashInvoke ==
    /\ dash.pc \in {"idle", "done"}
    /\ Runs < MaxRuns
    /\ \E cmd \in {"start", "attach", "kill"}, p \in {"", "project-x"} :
         /\ (cmd # "start" => p = "")
         /\ dash' = [IdleDash EXCEPT !.pc = CASE cmd = "start" -> "kill_old"
                                             [] cmd = "attach" -> "attach_check"
                                             [] OTHER -> "kill",
                                     !.cmd = cmd, !.project = p, !.runs = dash.runs + 1]
    /\ UNCHANGED <<tmux, view>>
    /\ UNCHANGED notTmux

\* create_unified_dashboard, lines 69-74: kill an existing dashboard session
DashKillOld ==
    /\ dash.pc = "kill_old"
    /\ tmux' = IF HasSession(tmux, SESSION_NAME) THEN KillSession(tmux, SESSION_NAME) ELSE tmux
    /\ dash' = [dash EXCEPT !.pc = "recheck", !.existed = HasSession(tmux, SESSION_NAME)]
    /\ UNCHANGED view
    /\ UNCHANGED notTmux

\* create_unified_dashboard, lines 79-84: the session is there again
DashRecheck ==
    /\ dash.pc = "recheck"
    /\ dash' = [dash EXCEPT !.pc = IF HasSession(tmux, SESSION_NAME) THEN "attach_check"
                                   ELSE "new_session"]
    /\ UNCHANGED <<tmux, view>>
    /\ UNCHANGED notTmux

\* create_unified_dashboard, lines 86-93: tmux new-session ... -n "Overview"
DashNewSession ==
    /\ dash.pc = "new_session"
    /\ IF NewSessionOk(tmux, SESSION_NAME)
       THEN /\ tmux' = NewSession(tmux, SESSION_NAME, "Overview")
            /\ dash' = [dash EXCEPT !.pc = "setup", !.step = 1]
       ELSE /\ dash' = [dash EXCEPT !.pc = "done", !.status = 1]
            /\ UNCHANGED tmux
    /\ UNCHANGED view
    /\ UNCHANGED notTmux

\* create_unified_dashboard, lines 95-211: one window per step (new-window for
\* all but the first, then send-keys); `set -e` ends the script when tmux fails
DashSetupWindow ==
    /\ dash.pc = "setup"
    /\ LET ws == DashWindows(dash.project)
           w  == ws[dash.step]
       IN  IF \/ ~HasSession(tmux, SESSION_NAME)
              \/ (dash.step = 1 /\ ~HasWindow(tmux, SESSION_NAME, w))
           THEN /\ dash' = [dash EXCEPT !.pc = "done", !.status = 1]
                /\ UNCHANGED tmux
           ELSE /\ tmux' = SendKeys(IF dash.step = 1 THEN tmux
                                    ELSE NewWindow(tmux, SESSION_NAME, w),
                                    SESSION_NAME, w, DashKeys(w, dash.project))
                /\ dash' = IF dash.step = Len(ws)
                           THEN [dash EXCEPT !.pc = "attach_check"]
                           ELSE [dash EXCEPT !.step = dash.step + 1]
    /\ UNCHANGED view
    /\ UNCHANGED notTmux

\* attach_dashboard, lines 329-347 and 350-353: session_exists, the controls
\* and windows printed, or the error
DashAttachCheck ==
    /\ dash.pc = "attach_check"
    /\ dash' = IF HasSession(tmux, SESSION_NAME)
               THEN [dash EXCEPT !.pc = "attach"]
               ELSE [dash EXCEPT !.pc = "done", !.status = 1,
                                 !.err = "Dashboard session does not exist"]
    /\ UNCHANGED <<tmux, view>>
    /\ UNCHANGED notTmux

\* attach_dashboard, lines 348-349: sleep 2, then tmux attach-session
DashAttach ==
    /\ dash.pc = "attach"
    /\ dash' = AttachSession(tmux, SESSION_NAME, dash)
    /\ UNCHANGED <<tmux, view>>
    /\ UNCHANGED notTmux

\* kill_dashboard, lines 370-382
DashKill ==
    /\ dash.pc = "kill"
    /\ tmux' = IF HasSession(tmux, SESSION_NAME) THEN KillSession(tmux, SESSION_NAME) ELSE tmux
    /\ dash' = [dash EXCEPT !.pc = "done", !.status = 0]
    /\ UNCHANGED view
    /\ UNCHANGED notTmux

\* control panel, `killproj <session_name>`: tmux kill-session -t "$args"
KillProject ==
    /\ \E n \in SessionNames :
         /\ HasSession(tmux, n)
         /\ tmux' = KillSession(tmux, n)
    /\ UNCHANGED <<view, dash>>
    /\ UNCHANGED notTmux

TmuxNext ==
    \/ ViewInvoke
    \/ ViewCreate
    \/ ViewSendKeys
    \/ ViewAttachCheck
    \/ ViewAttach
    \/ DashInvoke
    \/ DashKillOld
    \/ DashRecheck
    \/ DashNewSession
    \/ DashSetupWindow
    \/ DashAttachCheck
    \/ DashAttach
    \/ DashKill
    \/ KillProject

----------------------------------------------------------------------------
(* git, as seen through the git commands blue_green_deploy.sh runs *)

PROD_BRANCH == "main"

DEV_BRANCH == "dev"

\* value of a branch that does not exist in the working copy
NoCommit == 0

RootCommit == [parents |-> <<>>, deployment |-> FALSE]

RECURSIVE Ancestors(_, _)
\* the commits reachable from c, c included
Ancestors(cs, c) ==
    IF c = NoCommit THEN {}
    ELSE {c} \cup UNION { Ancestors(cs, cs[c].parents[k]) : k \in DOMAIN cs[c].parents }

\* git merge <theirs> into a branch at <ours>: already up to date, fast-forward,
\* or a true merge that either conflicts or records a merge commit
GitMerge(cs, ours, theirs) ==
    IF theirs \in Ancestors(cs, ours)
    THEN { [ok |-> TRUE, commits |-> cs, tip |-> ours] }
    ELSE IF ours \in Ancestors(cs, theirs)
    THEN { [ok |-> TRUE, commits |-> cs, tip |-> theirs] }
    ELSE { [ok |-> FALSE, commits |-> cs, tip |-> ours],
           [ok |-> TRUE,
            commits |-> Append(cs, [parents |-> <<ours, theirs>>, deployment |-> FALSE]),
            tip |-> Len(cs) + 1] }

Max(S) == CHOOSE x \in S : \A y \in S : y <= x

\* git log --oneline --grep="deployment-" | head -n 1 | cut -d' ' -f1
\* the newest commit in the history of <c> whose message contains "deployment-"
GrepDeploymentCommit(cs, c) ==
    LET hits == { x \in Ancestors(cs, c) : cs[x].deployment }
    IN  IF hits = {} THEN NoCommit ELSE Max(hits)

\* HEAD~1: the first parent, if there is one
FirstParent(cs, c) == IF Len(cs[c].parents) = 0 THEN NoCommit ELSE cs[c].parents[1]

\* commits made by people (not by git merge)
AuthoredCommits == { c \in DOMAIN commits : Len(commits[c].parents) <= 1 }

----------------------------------------------------------------------------
(* blue_green_deploy.sh *)

\* grep "^${SESSION_PREFIX}" with SESSION_PREFIX="project-", over the session names in use
HasSessionPrefix(n) == n \in {"project-x"}

\* get_project_sessions
get_project_sessions(t) == SelectSeq([i \in DOMAIN t |-> t[i].name], HasSessionPrefix)

\* grep -E "(Developer|Project_Manager|Qa|Agent)" over the window names in use
IsAgentWindow(w) == w \in {"Developer", "Project_Manager", "Qa", "Agent"}

WindowsOf(t, n) == t[CHOOSE i \in DOMAIN t : t[i].name = n].windows

\* check_agents_in_session: the lines it prints.  `grep -c` prints the count and
\* fails when the count is 0, so `|| echo "0"` adds a second line "0"
check_agents_in_session(t, n) ==
    LET c == Cardinality({ j \in DOMAIN WindowsOf(t, n) : IsAgentWindow(WindowsOf(t, n)[j].name) })
    IN  IF ~HasSession(t, n) THEN <<0>>
        ELSE IF c = 0 THEN <<0, 0>> ELSE <<c>>

RECURSIVE SumAgents(_, _, _)
\* the loop of check_running_agents; a two-line count breaks $((...)) and ends
\* the subshell after the print_info line, which is then the last line of output
SumAgents(t, names, total) ==
    IF names = <<>> THEN [numeric |-> TRUE, value |-> total]
    ELSE LET out == check_agents_in_session(t, Head(names))
         IN  IF Len(out) # 1 THEN [numeric |-> FALSE, value |-> 0]
             ELSE SumAgents(t, Tail(names), total + out[1])

\* check_running_agents | tail -n 1
check_running_agents(t) == SumAgents(t, get_project_sessions(t), 0)

\* if [ "$agent_count" -gt 0 ]: the warning is printed for a positive number
AgentsNote(t) ==
    LET r == check_running_agents(t)
    IN  IF r.numeric /\ r.value > 0 THEN "warning" ELSE "info"

\* what blue_green_deploy.sh does to the tmux server: it runs has-session,
\* list-sessions and list-windows only
DeployTmux(t) == t

IdleDep == [pc |-> "idle", cmd |-> "", branch |-> "", status |-> NotExited,
            stageOk |-> FALSE, canaryOk |-> FALSE, err |-> "", note |-> "",
            mainAtStart |-> NoCommit, prevDeployMain |-> NoCommit, runs |-> 0]

\* a fresh clone with both branches, dev checked out, no script running
DepIdle ==
    /\ commits = <<RootCommit>>
    /\ refs = [main |-> 1, dev |-> 1, originMain |-> 1, originDev |-> 1]
    /\ head = DEV_BRANCH
    /\ stateFile = FALSE
    /\ dep = IdleDep

\* a fresh clone: with or without a local dev branch, on either branch
DepInit ==
    /\ commits = <<RootCommit>>
    /\ \E d \in {1, NoCommit} :
         /\ refs = [main |-> 1, dev |-> d, originMain |-> 1, originDev |-> 1]
         /\ head \in (IF d = NoCommit THEN {PROD_BRANCH} ELSE {PROD_BRANCH, DEV_BRANCH})
    /\ stateFile = FALSE
    /\ dep = IdleDep

DepExit(code, err) == [dep EXCEPT !.pc = "done", !.status = code, !.err = err]

FirstPc(cmd) ==
    CASE cmd \in {"stage", "deploy"} -> "stage_checkout"
      [] cmd = "test"                -> "canary"
      [] cmd = "rollback"            -> "rb_verify"
      [] cmd = "status"              -> "status"
      [] OTHER                       -> "done"

\* line 20 and the case statement at lines 392-422
DepInvoke ==
    /\ dep.pc \in {"idle", "done"}
    /\ dep.runs < MaxDeployRuns
    /\ \E cmd \in {"stage", "test", "deploy", "rollback", "status", "help"} :
         dep' = [IdleDep EXCEPT
                   !.pc = FirstPc(cmd), !.cmd = cmd, !.branch = head,
                   !.status = IF cmd = "help" THEN 0 ELSE NotExited,
                   !.mainAtStart = refs.main,
                   !.prevDeployMain =
                       IF cmd = "rollback" /\ dep.cmd = "deploy" /\ dep.pc = "done"
                          /\ dep.status = 0
                       THEN dep.mainAtStart ELSE NoCommit,
                   !.runs = dep.runs + 1]
    /\ UNCHANGED <<commits, refs, head, stateFile>>
    /\ UNCHANGED notDep

\* stage_new_deployment, lines 129-133: git checkout dev.  In `deploy` the
\* function runs as the condition of an `if`, where `set -e` is off, so a failed
\* checkout is ignored; in `stage` it ends the script
StageCheckout ==
    /\ dep.pc = "stage_checkout"
    /\ IF dep.branch = DEV_BRANCH
       THEN /\ dep' = [dep EXCEPT !.pc = "stage_pull"]
            /\ UNCHANGED head
       ELSE IF refs.dev # NoCommit
       THEN /\ head' = DEV_BRANCH
            /\ dep' = [dep EXCEPT !.pc = "stage_pull"]
       ELSE /\ dep' = IF dep.cmd = "stage" THEN DepExit(1, "checkout_failed")
                      ELSE [dep EXCEPT !.pc = "stage_pull"]
            /\ UNCHANGED head
    /\ UNCHANGED <<commits, refs, stateFile>>
    /\ UNCHANGED notDep

\* stage_new_deployment, lines 135-137: git pull origin dev || print_warning;
\* the pull merges origin's dev into the branch that is checked out
StagePull ==
    /\ dep.pc = "stage_pull"
    /\ \E fetched \in BOOLEAN :
         IF fetched
         THEN \E r \in GitMerge(commits, refs[head], refs.originDev) :
                /\ commits' = r.commits
                /\ refs' = [refs EXCEPT ![head] = r.tip]
         ELSE UNCHANGED <<commits, refs>>
    /\ dep' = [dep EXCEPT !.pc = "stage_dirs"]
    /\ UNCHANGED <<head, stateFile>>
    /\ UNCHANGED notDep

\* stage_new_deployment, lines 139-157, and the else branch of `deploy`
StageDirs ==
    /\ dep.pc = "stage_dirs"
    /\ \E dirsPresent \in BOOLEAN :
         dep' = IF ~dirsPresent
                THEN DepExit(1, IF dep.cmd = "deploy" THEN "deployment_aborted"
                                ELSE "directory_missing")
                ELSE IF dep.cmd = "stage"
                THEN [DepExit(0, "") EXCEPT !.stageOk = TRUE]
                ELSE [dep EXCEPT !.pc = "canary", !.stageOk = TRUE]
    /\ UNCHANGED <<commits, refs, head, stateFile>>
    /\ UNCHANGED notDep

\* run_canary_test, lines 161-244, and the else branch of `deploy`
Canary ==
    /\ dep.pc = "canary"
    /\ \E passed \in BOOLEAN :
         dep' = IF ~passed
                THEN DepExit(1, IF dep.cmd = "deploy" THEN "deployment_aborted"
                                ELSE "canary_failed")
                ELSE IF dep.cmd = "test"
                THEN [DepExit(0, "") EXCEPT !.canaryOk = TRUE]
                ELSE [dep EXCEPT !.pc = "pt_save", !.canaryOk = TRUE]
    /\ UNCHANGED <<commits, refs, head, stateFile>>
    /\ UNCHANGED notDep

\* perform_transition, lines 250-257: save_deployment_state, then the test of
\* CURRENT_BRANCH, which still holds the branch the script was started on
PTSave ==
    /\ dep.pc = "pt_save"
    /\ stateFile' = TRUE
    /\ dep' = IF dep.branch # DEV_BRANCH THEN DepExit(1, "not_on_dev")
              ELSE [dep EXCEPT !.pc = "pt_agents"]
    /\ UNCHANGED <<commits, refs, head>>
    /\ UNCHANGED notDep

\* variant: the project sessions are shut down before the transition
PTAgents_killSessions ==
    /\ dep.pc = "pt_agents"
    /\ dep' = [dep EXCEPT !.pc = "pt_merge", !.note = AgentsNote(tmux)]
    /\ tmux' = SelectSeq(tmux, LAMBDA s : ~HasSessionPrefix(s.name))
    /\ UNCHANGED <<view, dash>>
    /\ UNCHANGED <<commits, refs, head, stateFile>>
    /\ UNCHANGED <<msgVars, extVars>>

\* perform_transition, lines 259-268: check_running_agents
PTAgents ==
    /\ dep.pc = "pt_agents"
    /\ dep' = [dep EXCEPT !.pc = "pt_merge", !.note = AgentsNote(tmux)]
    /\ tmux' = DeployTmux(tmux)
    /\ UNCHANGED <<view, dash>>
    /\ UNCHANGED <<commits, refs, head, stateFile>>
    /\ UNCHANGED <<msgVars, extVars>>

\* perform_transition, lines 270-282: git checkout main; git merge dev
PTMerge ==
    /\ dep.pc = "pt_merge"
    /\ head' = PROD_BRANCH
    /\ \E r \in GitMerge(commits, refs.main, refs.dev) :
         /\ commits' = r.commits
         /\ refs' = [refs EXCEPT !.main = r.tip]
         /\ dep' = IF r.ok THEN [dep EXCEPT !.pc = "pt_push"]
                   ELSE DepExit(1, "merge_failed")
    /\ UNCHANGED stateFile
    /\ UNCHANGED notDep

\* perform_transition, lines 284-297: git tag; git push origin main --tags;
\* git checkout dev.  A push that is not a fast-forward of origin is refused
PTPush ==
    /\ dep.pc = "pt_push"
    /\ \E pushed \in BOOLEAN :
         /\ pushed => refs.originMain \in Ancestors(commits, refs.main)
         /\ IF pushed
            THEN /\ refs' = [refs EXCEPT !.originMain = refs.main]
                 /\ head' = DEV_BRANCH
                 /\ dep' = DepExit(0, "")
            ELSE /\ dep' = DepExit(1, "push_failed")
                 /\ UNCHANGED <<refs, head>>
    /\ UNCHANGED <<commits, stateFile>>
    /\ UNCHANGED notDep

\* variant: the rollback goes ahead without a saved deployment state
RbVerify_noCheck ==
    /\ dep.pc = "rb_verify"
    /\ dep' = [dep EXCEPT !.pc = "rb_checkout"]
    /\ UNCHANGED <<commits, refs, head, stateFile>>
    /\ UNCHANGED notDep

\* rollback_deployment, lines 302-308, with verify_deployment_state
RbVerify ==
    /\ dep.pc = "rb_verify"
    /\ dep' = IF stateFile THEN [dep EXCEPT !.pc = "rb_checkout"]
              ELSE DepExit(1, "No deployment state found. Cannot rollback.")
    /\ UNCHANGED <<commits, refs, head, stateFile>>
    /\ UNCHANGED notDep

\* rollback_deployment, lines 310-312: git checkout main
RbCheckout ==
    /\ dep.pc = "rb_checkout"
    /\ head' = PROD_BRANCH
    /\ dep' = [dep EXCEPT !.pc = "rb_reset"]
    /\ UNCHANGED <<commits, refs, stateFile>>
    /\ UNCHANGED notDep

\* the commit rollback_deployment resets main to: the commit found by git log
\* --grep, else HEAD~1
RollbackTarget(cs, c) ==
    IF GrepDeploymentCommit(cs, c) # NoCommit THEN GrepDeploymentCommit(cs, c)
    ELSE FirstParent(cs, c)

\* rollback_deployment, lines 314-326: git reset --hard; git push --force
RbReset ==
    /\ dep.pc = "rb_reset"
    /\ LET target == RollbackTarget(commits, refs.main)
       IN  IF target = NoCommit
           THEN /\ dep' = DepExit(128, "reset_failed")
                /\ UNCHANGED refs
           ELSE \E pushed \in BOOLEAN :
                  /\ refs' = [refs EXCEPT !.main = target,
                                          !.originMain = IF pushed THEN target ELSE @]
                  /\ dep' = IF pushed THEN [dep EXCEPT !.pc = "rb_back"]
                            ELSE DepExit(1, "push_failed")
    /\ UNCHANGED <<commits, head, stateFile>>
    /\ UNCHANGED notDep

\* rollback_deployment, lines 328-332: git checkout dev; return 0
RbBack ==
    /\ dep.pc = "rb_back"
    /\ IF refs.dev # NoCommit
       THEN /\ head' = DEV_BRANCH
            /\ dep' = DepExit(0, "")
       ELSE /\ dep' = DepExit(1, "checkout_failed")
            /\ UNCHANGED head
    /\ UNCHANGED <<commits, refs, stateFile>>
    /\ UNCHANGED notDep

\* show_status, lines 336-362; its last command is verify_deployment_state
ShowStatus ==
    /\ dep.pc = "status"
    /\ dep' = [DepExit(IF stateFile THEN 0 ELSE 1, "") EXCEPT !.note = AgentsNote(tmux)]
    /\ tmux' = DeployTmux(tmux)
    /\ UNCHANGED <<view, dash>>
    /\ UNCHANGED <<commits, refs, head, stateFile>>
    /\ UNCHANGED <<msgVars, extVars>>

\* a developer pushes a commit to dev on origin; its message may mention "deployment-"
PushDev ==
    /\ Cardinality(AuthoredCommits) <= MaxAuthored
    /\ \E d \in BOOLEAN :
         commits' = Append(commits, [parents |-> <<refs.originDev>>, deployment |-> d])
    /\ refs' = [refs EXCEPT !.originDev = Len(commits) + 1]
    /\ UNCHANGED <<head, stateFile, dep>>
    /\ UNCHANGED notDep

\* a maintainer commits a hotfix on main between two runs of the script
Hotfix ==
    /\ Cardinality(AuthoredCommits) <= MaxAuthored
    /\ dep.pc \in {"idle", "done"}
    /\ commits' = Append(commits, [parents |-> <<refs.main>>, deployment |-> FALSE])
    /\ refs' = [refs EXCEPT !.main = Len(commits) + 1]
    /\ dep' = [IdleDep EXCEPT !.runs = dep.runs]
    /\ UNCHANGED <<head, stateFile>>
    /\ UNCHANGED notDep

DepNext ==
    \/ DepInvoke
    \/ StageCheckout
    \/ StagePull
    \/ StageDirs
    \/ Canary
    \/ PTSave
    \/ PTAgents
    \/ PTMerge
    \/ PTPush
    \/ RbVerify
    \/ RbCheckout
    \/ RbReset
    \/ RbBack
    \/ ShowStatus
    \/ PushDev
    \/ Hotfix
    \/ KillProject

----------------------------------------------------------------------------
(* HealthMonitor / GapDetector *)

\* the silence threshold T of the state machine, in seconds
T == 2

Workers == {"w1", "w2"}

\* the workers Running with a heartbeat at time 0, no gap event recorded
HealthIdle ==
    [now |-> 0,
     lastHeartbeat |-> [w \in Workers |-> 0],
     state |-> [w \in Workers |-> "Running"],
     flagged |-> [w \in Workers |-> FALSE],
     recovery |-> [w \in Workers |-> "none"],
     restartCount |-> [w \in Workers |-> 0],
     gaps |-> <<>>]

\* now - Worker.lastHeartbeat
Silence(h, w) == h.now - h.lastHeartbeat[w]

\* the single logical clock advances by one second
HealthTick ==
    /\ health.now < MaxClock
    /\ health' = [health EXCEPT !.now = health.now + 1]
    /\ UNCHANGED notHealth

\* variant: activity brings the worker back to Running but leaves its gap
\* events unresolved
recordActivity_keepUnresolved(w) ==
    /\ health' = [health EXCEPT !.lastHeartbeat[w] = health.now,
                                !.state[w] = "Running",
                                !.flagged[w] = FALSE,
                                !.recovery[w] = "none"]
    /\ UNCHANGED notHealth

\* recordActivity(workerId): updates lastHeartbeat and flips Unresponsive to
\* Running; the worker's gap events get their resolved flag
recordActivity(w) ==
    /\ health' = [health EXCEPT !.lastHeartbeat[w] = health.now,
                                !.state[w] = "Running",
                                !.flagged[w] = FALSE,
                                !.recovery[w] = "none",
                                !.gaps = [i \in DOMAIN health.gaps |->
                                             IF health.gaps[i].workerId = w
                                             THEN [health.gaps[i] EXCEPT !.resolved = TRUE]
                                             ELSE health.gaps[i]]]
    /\ UNCHANGED notHealth

\* one step of the periodic sweep for worker w: Running to Unresponsive after
\* T seconds without activity, Unresponsive to flagged for recovery (a GapEvent
\* is emitted) after 2T seconds without activity
HealthSweep(w) ==
    /\ IF health.state[w] = "Running" /\ Silence(health, w) >= T
       THEN health' = [health EXCEPT !.state[w] = "Unresponsive"]
       ELSE /\ health.state[w] = "Unresponsive"
            /\ ~health.flagged[w]
            /\ Silence(health, w) >= 2 * T
            /\ health' = [health EXCEPT
                             !.flagged[w] = TRUE,
                             !.gaps = Append(@, [workerId |-> w,
                                                 detectedAt |-> health.now,
                                                 durationSeconds |-> Silence(health, w),
                                                 resolved |-> FALSE])]
    /\ UNCHANGED notHealth

\* the default RecoveryStrategy: one restart through the ProcessSupervisor,
\* then escalation if the worker is still silent
attemptRecovery(w) ==
    /\ health.flagged[w]
    /\ health.recovery[w] # "escalated"
    /\ health' = IF health.recovery[w] = "none"
                 THEN [health EXCEPT !.recovery[w] = "restarted",
                                     !.restartCount[w] = @ + 1]
                 ELSE [health EXCEPT !.recovery[w] = "escalated"]
    /\ UNCHANGED notHealth

HealthNext ==
    \/ HealthTick
    \/ \E w \in Workers : recordActivity(w)
    \/ \E w \in Workers : HealthSweep(w)
    \/ \E w \in Workers : attemptRecovery(w)

----------------------------------------------------------------------------
(* Scheduler *)

CheckInIds == 1..MaxCheckIns

NoCheckIn == [targetWorkerId |-> "", fireAt |-> 0, note |-> "", recurring |-> FALSE,
              intervalSeconds |-> 0]

\* the clock at 0, nothing pending; created[i] keeps what check-in i was
\* created as, fired[i] counts its firings, cancelled holds the ids removed
\* by cancel while pending
SchedIdle ==
    [now |-> 0, nextId |-> 1, pending |-> {},
     created |-> [i \in CheckInIds |-> NoCheckIn],
     fired |-> [i \in CheckInIds |-> 0],
     cancelled |-> {},
     sent |-> <<>>]

PendingIds(sc) == { e.id : e \in sc.pending }

\* the entries that are due: fireAt has been reached
Due(sc) == { e \in sc.pending : e.fireAt <= sc.now }

\* the top of the min-heap ordered by fireAt (ids break ties)
HeapMin(es) ==
    CHOOSE e \in es : \A f \in es :
        e.fireAt < f.fireAt \/ (e.fireAt = f.fireAt /\ e.id <= f.id)

\* schedule(targetWorkerId, delaySeconds, note, recurring?) -> ScheduledCheckInId
schedule ==
    /\ sched.nextId <= MaxCheckIns
    /\ \E w \in Workers, delay \in 0..2, rec \in BOOLEAN :
         /\ rec => delay >= 1
         /\ LET c == [targetWorkerId |-> w, fireAt |-> sched.now + delay,
                      note |-> "check-in", recurring |-> rec,
                      intervalSeconds |-> IF rec THEN delay ELSE 0]
            IN  sched' = [sched EXCEPT
                            !.nextId = @ + 1,
                            !.pending = @ \cup {[id |-> sched.nextId, fireAt |-> c.fireAt]},
                            !.created[sched.nextId] = c]
    /\ UNCHANGED notSched

\* the single logical clock: it advances when nothing is due
SchedTick ==
    /\ sched.now < MaxSchedClock
    /\ Due(sched) = {}
    /\ sched' = [sched EXCEPT !.now = @ + 1]
    /\ UNCHANGED notSched

\* variant: a fired check-in is put back for the next second whether or not
\* it is recurring
SchedFire_reinsertAlways ==
    /\ Due(sched) # {}
    /\ LET e == HeapMin(Due(sched))
           c == sched.created[e.id]
       IN  sched' = [sched EXCEPT
                       !.sent = Append(@, [to |-> c.targetWorkerId,
                                           kind |-> "Coordination", body |-> c.note]),
                       !.fired[e.id] = @ + 1,
                       !.pending = (@ \ {e}) \cup
                                   {[id |-> e.id, fireAt |-> sched.now + 1]}]
    /\ UNCHANGED notSched

\* on fire: a Message(kind=Coordination, body=note) goes to MessageRouter.send;
\* the entry is deleted, or re-inserted with fireAt = now + intervalSeconds
\* when recurring
SchedFire ==
    /\ Due(sched) # {}
    /\ LET e == HeapMin(Due(sched))
           c == sched.created[e.id]
       IN  sched' = [sched EXCEPT
                       !.sent = Append(@, [to |-> c.targetWorkerId,
                                           kind |-> "Coordination", body |-> c.note]),
                       !.fired[e.id] = @ + 1,
                       !.pending = IF c.recurring
                                   THEN (@ \ {e}) \cup
                                        {[id |-> e.id,
                                          fireAt |-> sched.now + c.intervalSeconds]}
                                   ELSE @ \ {e}]
    /\ UNCHANGED notSched

\* cancel(id) removes a pending entry; for an id that is not pending it is a
\* no-op
cancel(id) ==
    /\ sched' = IF id \in PendingIds(sched)
                THEN [sched EXCEPT !.pending = { e \in @ : e.id # id },
                                   !.cancelled = @ \cup {id}]
                ELSE sched
    /\ UNCHANGED notSched

SchedNext ==
    \/ schedule
    \/ SchedTick
    \/ SchedFire
    \/ \E id \in CheckInIds : cancel(id)

----------------------------------------------------------------------------
(* monitor_agents.sh *)

\* option values are sequences of characters
DecimalDigits == <<"0", "1", "2", "3", "4", "5", "6", "7", "8", "9">>

DigitValue(c) == (CHOOSE i \in DOMAIN DecimalDigits : DecimalDigits[i] = c) - 1

\* [[ "$interval" =~ ^[0-9]+$ ]]
IsDecimal(v) ==
    /\ Len(v) >= 1
    /\ \A i \in DOMAIN v : \E k \in DOMAIN DecimalDigits : v[i] = DecimalDigits[k]

RECURSIVE DecimalValue(_)
\* the number [ "$interval" -lt 1 ] compares: the digits read in base ten
DecimalValue(v) ==
    IF v = <<>> THEN 0
    ELSE 10 * DecimalValue(SubSeq(v, 1, Len(v) - 1)) + DigitValue(v[Len(v)])

\* the test at line 230 that lets monitoring start
IntervalAccepted(v) == IsDecimal(v) /\ ~(DecimalValue(v) < 1)

\* values tried for the interval: empty, zero, negative, non-numeric,
\* fractional, zero-padded, valid
IntervalValues ==
    { <<>>, <<"0">>, <<"-", "3">>, <<"a", "b", "c">>, <<"1", ".", "5">>,
      <<"0", "0">>, <<"0", "8">>, <<"1">>, <<"3">> }

\* command lines: each argument is a sequence of characters, options are one
\* token
MonArgvs ==
    { <<>>, << <<"-i">> >>, << <<"--interval">> >>, << <<"-h">> >>,
      << <<"--help">> >>, << <<"--fast">> >> }
    \cup { << <<"-i">>, v >> : v \in IntervalValues }
    \cup { << <<"--interval">>, v >> : v \in {<<"3">>, <<"0">>} }
    \cup { << <<"-i">>, <<"a", "b", "c">>, <<"--help">> >>,
           << <<"-i">>, <<"3">>, <<"-i">>, <<"0">> >> }

\* local interval=5
DefaultInterval == <<"5">>

MonIdle == [pc |-> "idle", argv |-> <<>>, rest |-> <<>>, interval |-> DefaultInterval,
            control |-> FALSE, integration |-> FALSE,
            out |-> {}, refreshes |-> 0, status |-> NotExited, outcome |-> "none",
            runs |-> 0]

MonExit(code, outcome) == [mon EXCEPT !.pc = "done", !.status = code, !.outcome = outcome]

MonPrint(m, line) == [m EXCEPT !.out = @ \cup {line}]

\* main "$@" in a directory where qwen_control.py and qwen_tmux_integration.py
\* are present or not
MonInvoke ==
    /\ mon.pc \in {"idle", "done"}
    /\ mon.runs < MaxMonRuns
    /\ \E a \in MonArgvs, c \in BOOLEAN, g \in BOOLEAN :
         mon' = [MonIdle EXCEPT !.pc = "parse", !.argv = a, !.rest = a,
                                !.control = c, !.integration = g,
                                !.runs = mon.runs + 1]
    /\ UNCHANGED notMon

\* main, lines 210-227: one turn of the option loop.  `shift 2` with a single
\* argument left fails, and under `set -e` that ends the script with status 1
MonParse ==
    /\ mon.pc = "parse"
    /\ mon' =
         IF mon.rest = <<>> THEN [mon EXCEPT !.pc = "validate"]
         ELSE IF Head(mon.rest) \in {<<"-i">>, <<"--interval">>}
         THEN IF Len(mon.rest) >= 2
              THEN [mon EXCEPT !.interval = mon.rest[2],
                               !.rest = SubSeq(mon.rest, 3, Len(mon.rest))]
              ELSE [MonExit(1, "shift_failed") EXCEPT !.interval = <<>>]
         ELSE IF Head(mon.rest) \in {<<"-h">>, <<"--help">>}
         THEN MonPrint(MonExit(0, "help"), "help")
         ELSE MonPrint(MonPrint(MonExit(1, "unknown_option"), "Unknown option"), "help")
    /\ UNCHANGED notMon

\* main, lines 229-236, and monitor_real_time, lines 162-166
MonValidate ==
    /\ mon.pc = "validate"
    /\ mon' = IF ~IntervalAccepted(mon.interval)
              THEN MonPrint(MonExit(1, "bad_interval"), "Interval must be a positive integer")
              ELSE MonPrint([mon EXCEPT !.pc = "resources"], "Monitoring agents and resources")
    /\ UNCHANGED notMon

\* monitor_real_time, lines 168-174: clear, the header, get_system_resources;
\* a failing `free` or `nvidia-smi` inside it ends the script under `set -e`
MonResources ==
    /\ mon.pc = "resources"
    /\ \E ok \in BOOLEAN :
         mon' = IF ok THEN MonPrint([mon EXCEPT !.pc = "agent_info"], "SYSTEM RESOURCES")
                ELSE MonPrint(MonExit(1, "resources_failed"), "SYSTEM RESOURCES")
    /\ UNCHANGED notMon

\* get_agent_info, lines 70-83, called at line 175: `return 1` for a missing
\* qwen_control.py ends the script under `set -e`; a failing status query is
\* caught by `|| print_error`
get_agent_info ==
    /\ mon.pc = "agent_info"
    /\ \E statusOk \in BOOLEAN :
         mon' = IF ~mon.control
                THEN MonPrint(MonExit(1, "control_missing"), "qwen_control.py not found")
                ELSE IF statusOk THEN MonPrint([mon EXCEPT !.pc = "agent_activity"], "agent status")
                ELSE MonPrint([mon EXCEPT !.pc = "agent_activity"], "Failed to get agent status")
    /\ UNCHANGED notMon

\* get_agent_activity, lines 86-126, called at line 176
get_agent_activity ==
    /\ mon.pc = "agent_activity"
    /\ \E activityOk \in BOOLEAN :
         mon' = IF ~mon.integration
                THEN MonPrint(MonExit(1, "integration_missing"),
                              "qwen_tmux_integration.py not found")
                ELSE IF activityOk THEN MonPrint([mon EXCEPT !.pc = "ollama"], "agent activity")
                ELSE MonPrint([mon EXCEPT !.pc = "ollama"], "Failed to get agent activity")
    /\ UNCHANGED notMon

\* monitor_real_time, lines 177-181: get_ollama_info, then sleep "$interval"
\* and the next turn of `while true`
MonSleep ==
    /\ mon.pc = "ollama"
    /\ mon.refreshes < MaxRefreshes
    /\ mon' = MonPrint([mon EXCEPT !.pc = "resources", !.refreshes = @ + 1],
                       "OLLAMA INFORMATION")
    /\ UNCHANGED notMon

\* Ctrl+C while the loop runs
MonInterrupt ==
    /\ mon.pc \in {"resources", "agent_info", "agent_activity", "ollama"}
    /\ mon' = MonExit(130, "interrupted")
    /\ UNCHANGED notMon

MonNext ==
    \/ MonInvoke
    \/ MonParse
    \/ MonValidate
    \/ MonResources
    \/ get_agent_info
    \/ get_agent_activity
    \/ MonSleep
    \/ MonInterrupt

----------------------------------------------------------------------------
(* setup_qwen_orchestrator.sh *)

\* QWEN_MODEL="qwen2.5-coder:7b"
QWEN_MODEL == <<"qwen2.5-coder", ":", "7b">>

\* another model to ask for with --model
OtherModel == <<"qwen2.5-coder", ":", "14b">>

\* a model ollama may already hold whose name extends the default one
InstructModel == <<"qwen2.5-coder", ":", "7b", "-instruct">>

NoModel == <<"none">>

\* command lines of the setup script
SetupArgvs ==
    { <<>>, << <<"--help">> >>, << <<"-h">> >>, << <<"--test-only">> >>,
      << <<"--model">> >>, << <<"--model">>, OtherModel >>,
      << <<"--model">>, QWEN_MODEL >> }

\* the steps of main, in the order of lines 279-290
SetupSteps ==
    <<"check_system", "install_ollama", "start_ollama", "download_qwen_model",
      "install_python_deps", "create_directories", "setup_configuration",
      "create_examples", "test_installation">>

\* model: the value of QWEN_MODEL; ollama, service, models, deps: what the
\* machine has; shipped: the model named by qwen_config.json next to the
\* script (NoModel when there is no such file); the rest is what the run did
SetupIdle ==
    [pc |-> "idle", argv |-> <<>>, cmd |-> "", model |-> QWEN_MODEL,
     ollama |-> FALSE, service |-> FALSE, models |-> {}, deps |-> FALSE,
     shipped |-> NoModel,
     dirs |-> FALSE, configModel |-> NoModel, examples |-> FALSE,
     downloaded |-> NoModel, tested |-> NoModel,
     done |-> <<>>, reported |-> FALSE, status |-> NotExited, runs |-> 0]

SetupExit(code) == [setup EXCEPT !.pc = "done", !.status = code]

\* the step after a step that succeeded
SetupDone(st, step) ==
    [st EXCEPT !.done = Append(@, step),
               !.pc = IF Len(st.done) + 1 < Len(SetupSteps)
                      THEN SetupSteps[Len(st.done) + 2] ELSE "done"]

\* output of `ollama list`: a header and one line per model, nothing when
\* ollama is missing or its service is down
OllamaList(st) ==
    IF st.ollama /\ st.service
    THEN {<<"NAME", "ID", "SIZE">>} \cup { m \o <<"ID", "SIZE">> : m \in st.models }
    ELSE {}

\* ollama list | grep -q "$QWEN_MODEL"
ModelListed(st) == \E l \in OllamaList(st) : Contains(l, st.model)

\* lines 319-344: the case on $1, on a machine in some state.  `shift 2` after
\* --model without a value fails and ends the script under `set -e`
SetupInvoke ==
    /\ setup.pc \in {"idle", "done"}
    /\ setup.runs < MaxSetupRuns
    /\ \E a \in SetupArgvs, o \in BOOLEAN, sv \in BOOLEAN, d \in BOOLEAN,
          ms \in SUBSET {QWEN_MODEL, InstructModel}, sh \in {NoModel, QWEN_MODEL} :
         LET st == [SetupIdle EXCEPT !.argv = a, !.ollama = o, !.service = sv,
                                     !.deps = d, !.models = ms, !.shipped = sh,
                                     !.runs = setup.runs + 1]
         IN  setup' =
               IF a = <<>> THEN [st EXCEPT !.cmd = "install", !.pc = SetupSteps[1]]
               ELSE IF Head(a) \in {<<"--help">>, <<"-h">>}
               THEN [st EXCEPT !.cmd = "help", !.pc = "done", !.status = 0]
               ELSE IF Head(a) = <<"--test-only">>
               THEN [st EXCEPT !.cmd = "test-only", !.pc = "test_installation"]
               ELSE IF Len(a) >= 2
               THEN [st EXCEPT !.cmd = "install", !.model = a[2], !.pc = SetupSteps[1]]
               ELSE [st EXCEPT !.cmd = "install", !.model = <<>>, !.pc = "done",
                               !.status = 1]
    /\ UNCHANGED notSetup

\* check_system, lines 40-54
check_system ==
    /\ setup.pc = "check_system"
    /\ \E present \in BOOLEAN :
         setup' = IF present THEN SetupDone(setup, "check_system") ELSE SetupExit(1)
    /\ UNCHANGED notSetup

\* install_ollama, lines 57-84.  In `curl ... | sh` a failed download leaves
\* sh with nothing to run: the step goes on without ollama
install_ollama ==
    /\ setup.pc = "install_ollama"
    /\ IF setup.ollama THEN setup' = SetupDone(setup, "install_ollama")
       ELSE \E r \in {"unsupported", "installed", "installer_failed", "download_failed"} :
              setup' =
                CASE r = "installed" ->
                       SetupDone([setup EXCEPT !.ollama = TRUE], "install_ollama")
                  [] r = "download_failed" -> SetupDone(setup, "install_ollama")
                  [] OTHER -> SetupExit(1)
    /\ UNCHANGED notSetup

\* start_ollama, lines 87-121
start_ollama ==
    /\ setup.pc = "start_ollama"
    /\ IF setup.service THEN setup' = SetupDone(setup, "start_ollama")
       ELSE \E up \in BOOLEAN :
              /\ up => setup.ollama
              /\ setup' = IF up THEN SetupDone([setup EXCEPT !.service = TRUE], "start_ollama")
                          ELSE SetupExit(1)
    /\ UNCHANGED notSetup

\* download_qwen_model, lines 124-143
download_qwen_model ==
    /\ setup.pc = "download_qwen_model"
    /\ IF ModelListed(setup) THEN setup' = SetupDone(setup, "download_qwen_model")
       ELSE \E pulled \in BOOLEAN :
              /\ pulled => (setup.ollama /\ setup.service)
              /\ setup' = IF pulled
                          THEN SetupDone([setup EXCEPT !.models = @ \cup {setup.model},
                                                       !.downloaded = setup.model],
                                         "download_qwen_model")
                          ELSE SetupExit(1)
    /\ UNCHANGED notSetup

\* install_python_deps, lines 146-159
install_python_deps ==
    /\ setup.pc = "install_python_deps"
    /\ \E ok \in BOOLEAN :
         setup' = IF ok THEN SetupDone([setup EXCEPT !.deps = TRUE], "install_python_deps")
                  ELSE SetupExit(1)
    /\ UNCHANGED notSetup

\* create_directories, lines 162-171
create_directories ==
    /\ setup.pc = "create_directories"
    /\ \E ok \in BOOLEAN :
         setup' = IF ok THEN SetupDone([setup EXCEPT !.dirs = TRUE], "create_directories")
                  ELSE SetupExit(1)
    /\ UNCHANGED notSetup

\* setup_configuration, lines 174-196: the qwen_config.json next to the script
\* is copied as it is; only without it is one written from QWEN_MODEL
setup_configuration ==
    /\ setup.pc = "setup_configuration"
    /\ setup' = IF ~setup.dirs THEN SetupExit(1)
                ELSE SetupDone([setup EXCEPT !.configModel =
                                    IF setup.shipped # NoModel THEN setup.shipped
                                    ELSE setup.model],
                               "setup_configuration")
    /\ UNCHANGED notSetup

\* variant: a failure to write the example scripts is ignored
create_examples_ignoreFailure ==
    /\ setup.pc = "create_examples"
    /\ \E ok \in BOOLEAN :
         setup' = SetupDone([setup EXCEPT !.examples = ok], "create_examples")
    /\ UNCHANGED notSetup

\* create_examples, lines 232-271
create_examples ==
    /\ setup.pc = "create_examples"
    /\ \E ok \in BOOLEAN :
         setup' = IF ok THEN SetupDone([setup EXCEPT !.examples = TRUE], "create_examples")
                  ELSE SetupExit(1)
    /\ UNCHANGED notSetup

\* test_installation, lines 199-229, with its callers: main (lines 290-316)
\* reports success or exits 1; --test-only exits with the test's status
test_installation ==
    /\ setup.pc = "test_installation"
    /\ \E healthy \in BOOLEAN :
         LET passed == setup.service /\ setup.deps /\ ModelListed(setup) /\ healthy
             st == [setup EXCEPT !.tested = IF setup.service /\ setup.deps
                                            THEN setup.model ELSE @]
         IN  setup' =
               IF ~passed THEN [st EXCEPT !.pc = "done", !.status = 1]
               ELSE [st EXCEPT !.pc = "done", !.status = 0,
                               !.done = Append(@, "test_installation"),
                               !.reported = (setup.cmd = "install")]
    /\ UNCHANGED notSetup

SetupNext ==
    \/ SetupInvoke
    \/ check_system
    \/ install_ollama
    \/ start_ollama
    \/ download_qwen_model
    \/ install_python_deps
    \/ create_directories
    \/ setup_configuration
    \/ create_examples
    \/ test_installation

----------------------------------------------------------------------------
(* SearchEvent *)

\* titles and queries are sequences of words; " " is white space
LowerCase ==
    [w \in {"Tech", "Conference", "Workshop", "on", "React", "react", "REACT",
            "Lunch", "Party", " "} |->
        CASE w = "Tech" -> "tech"
          [] w = "Conference" -> "conference"
          [] w = "Workshop" -> "workshop"
          [] w \in {"React", "REACT"} -> "react"
          [] w = "Lunch" -> "lunch"
          [] w = "Party" -> "party"
          [] OTHER -> w]

\* String.prototype.toLowerCase
toLowerCase(str) == [i \in DOMAIN str |-> LowerCase[str[i]]]

RECURSIVE trim(_)
\* String.prototype.trim
trim(str) ==
    IF str = <<>> THEN <<>>
    ELSE IF Head(str) = " " THEN trim(Tail(str))
    ELSE IF str[Len(str)] = " " THEN trim(SubSeq(str, 1, Len(str) - 1))
    ELSE str

\* String.prototype.includes
includes(str, part) == Contains(str, part)

\* the events the server answers GET /api/events with (those of the test)
ServerEvents ==
    << [id |-> 1, title |-> <<"Tech", " ", "Conference">>],
       [id |-> 2, title |-> <<"Workshop", " ", "on", " ", "React">>],
       [id |-> 3, title |-> <<"Lunch">>] >>

\* what the user types into the search box
Queries == { <<>>, <<" ">>, <<"React">>, <<"react">>, <<"REACT">>, <<"Party">> }

NotTyped == <<"(nothing typed)">>

\* useState(''), useState([]), useState([]); typed is the last value typed
SearchIdle ==
    [pc |-> "unmounted", query |-> <<>>, events |-> <<>>, filteredEvents |-> <<>>,
     inflight |-> FALSE, fetched |-> FALSE, typed |-> NotTyped, keystrokes |-> 0,
     threw |-> FALSE]

\* the first render, lines 5-34.  useEffect is called but not imported (line 2
\* imports useState only): where the name does not resolve the render throws a
\* ReferenceError and nothing is shown; where the build supplies it, the effect
\* starts fetchEvents
SearchMount ==
    /\ search.pc = "unmounted"
    /\ \E resolves \in BOOLEAN :
         search' = IF resolves THEN [search EXCEPT !.pc = "mounted", !.inflight = TRUE]
                   ELSE [search EXCEPT !.pc = "crashed"]
    /\ UNCHANGED notSearch

\* fetchEvents, lines 22-30, when axios.get settles
fetchEvents ==
    /\ search.pc = "mounted"
    /\ search.inflight
    /\ \E ok \in BOOLEAN :
         search' = IF ok
                   THEN [search EXCEPT !.inflight = FALSE, !.fetched = TRUE,
                                       !.events = ServerEvents,
                                       !.filteredEvents = ServerEvents]
                   ELSE [search EXCEPT !.inflight = FALSE]
    /\ UNCHANGED notSearch

\* handleSearchChange, lines 10-20.  The parameter of the filter callback is
\* named `event` like the handler's own, so `event.target` is read from a list
\* item and is undefined: with a non-blank value and a non-empty list the
\* handler throws a TypeError before setFilteredEvents; setQuery was queued
\* before
handleSearchChange(value) ==
    /\ search.pc = "mounted"
    /\ search.keystrokes < MaxKeystrokes
    /\ search' =
         IF trim(value) = <<>>
         THEN [search EXCEPT !.query = value, !.typed = value, !.keystrokes = @ + 1,
                             !.filteredEvents = search.events]
         ELSE IF search.events = <<>>
         THEN [search EXCEPT !.query = value, !.typed = value, !.keystrokes = @ + 1,
                             !.filteredEvents = <<>>]
         ELSE [search EXCEPT !.query = value, !.typed = value, !.keystrokes = @ + 1,
                             !.threw = TRUE]
    /\ UNCHANGED notSearch

\* the component is removed and rendered anew
SearchRemount ==
    /\ search.pc \in {"mounted", "crashed"}
    /\ ~search.inflight
    /\ search.keystrokes >= 1 \/ search.pc = "crashed"
    /\ search' = [SearchIdle EXCEPT !.keystrokes = search.keystrokes]
    /\ UNCHANGED notSearch

SearchNext ==
    \/ SearchMount
    \/ fetchEvents
    \/ \E v \in Queries : handleSearchChange(v)
    \/ SearchRemount

----------------------------------------------------------------------------
(* Specifications *)

\* the components that are not part of a specification stay as they start
ExtIdle ==
    /\ health = HealthIdle
    /\ sched = SchedIdle
    /\ mon = MonIdle
    /\ setup = SetupIdle
    /\ search = SearchIdle

\* tmux servers the deployment script can meet: no session; a project session
\* without agent windows; one with a Developer window; that one next to a
\* session that is not a project session
ProjectPlain == NewSession(<<>>, "project-x", "Main")

ProjectWithAgent ==
    SendKeys(NewSession(<<>>, "project-x", "Developer"), "project-x", "Developer", <<"run">>)

TmuxInitDeploy ==
    /\ tmux \in { <<>>, ProjectPlain, ProjectWithAgent,
                   NewSession(ProjectWithAgent, SESSION_NAME, "Main") }
    /\ view = IdleView
    /\ dash = IdleDash

\* nothing running: the agents registered, no tmux session, a fresh clone
InitIdle == MsgInit /\ TmuxInit /\ DepIdle /\ ExtIdle

\* nothing running, in any of the working copies and tmux servers above
InitDeploy == MsgInit /\ TmuxInitDeploy /\ DepInit /\ ExtIdle

\* the health monitor alone
SpecHealth == InitIdle /\ [][HealthNext]_vars

\* the scheduler alone
SpecSched == InitIdle /\ [][SchedNext]_vars

\* monitor_agents.sh alone
SpecMon == InitIdle /\ [][MonNext]_vars

\* setup_qwen_orchestrator.sh alone
SpecSetup == InitIdle /\ [][SetupNext]_vars

\* the SearchEvent component alone
SpecSearch == InitIdle /\ [][SearchNext]_vars

\* send-qwen-message.sh alone
SpecMsg == InitIdle /\ [][MsgNext]_vars

\* show_tmux_sessions.sh and unified_dashboard.sh sharing one tmux server
SpecTmux == InitIdle /\ [][TmuxNext]_vars

\* blue_green_deploy.sh in a working copy, next to a tmux server
SpecDeploy == InitDeploy /\ [][DepNext]_vars

----------------------------------------------------------------------------
(* Properties of send-qwen-message.sh *)

IsExecutorToExecutor(m) ==
    /\ Role(m.from) = "Executor"
    /\ \E a \in Agents : /\ m.to = <<a>>
                         /\ Role(a) = "Executor"
                         /\ a # ManagerOf(m.from)

\* C2: a message an Executor sends directly to another Executor that is not
\* its Manager is rejected and never reaches the recipient.
C2_ExecutorToExecutorRejected ==
    \A i \in DOMAIN inbox : ~IsExecutorToExecutor(inbox[i])

HandedIn(c, n) == { i \in DOMAIN inbox : inbox[i].from = c /\ inbox[i].n = n }

\* C3: one invocation hands the message to the agent API at most once, and
\* only for an agent found in that invocation (the given id, or the id resolved
\* from session:window); when neither is found nothing is delivered and the
\* invocation fails.
C3_HandedOnceToFoundAgent ==
    \A c \in Callers :
        /\ proc[c].handed <= 1
        /\ \A n \in 1..MaxSends : Cardinality(HandedIn(c, n)) <= 1
        /\ (proc[c].pc \in {"send", "sendlog"} \/ proc[c].handed = 1)
              => proc[c].target \in proc[c].found
        /\ proc[c].found \subseteq
              ({AGENT_ID(proc[c].argv)} \cup
               AwkFirst({ ListLine(a) : a \in Agents }))
        /\ \A i \in HandedIn(c, proc[c].n) : inbox[i].to = proc[c].target
        /\ (proc[c].pc = "done" /\ proc[c].outcome = "not_found")
              => /\ proc[c].handed = 0
                 /\ HandedIn(c, proc[c].n) = {}
                 /\ proc[c].status # 0

C3_Witness ==
    \E c \in Callers :
        /\ proc[c].pc = "done" /\ proc[c].outcome = "sent" /\ proc[c].handed = 1
        /\ HandedIn(c, proc[c].n) # {}
        /\ \E i \in DOMAIN msgLog : msgLog[i].kind = "ERROR_NOT_FOUND"

\* C4: when one caller sends m1 and then m2 to the same agent, every log
\* record of m1 precedes every log record of m2, and m1 is handed to the
\* agent before m2.
C4_SameCallerOrder ==
    /\ \A i, j \in DOMAIN msgLog :
          (/\ msgLog[i].caller = msgLog[j].caller
           /\ msgLog[i].target = msgLog[j].target
           /\ msgLog[i].n < msgLog[j].n) => i < j
    /\ \A i, j \in DOMAIN inbox :
          (/\ inbox[i].from = inbox[j].from
           /\ inbox[i].to = inbox[j].to
           /\ inbox[i].n < inbox[j].n) => i < j

C4_Witness ==
    \E i, j \in DOMAIN inbox :
        /\ inbox[i].from = inbox[j].from /\ inbox[i].to = inbox[j].to
        /\ inbox[i].n < inbox[j].n
        /\ \E k, l \in DOMAIN msgLog :
              /\ msgLog[k].caller = inbox[i].from /\ msgLog[k].n = inbox[i].n
              /\ msgLog[k].kind = "SUCCESS"
              /\ msgLog[l].caller = inbox[j].from /\ msgLog[l].n = inbox[j].n
              /\ msgLog[l].kind = "SUCCESS"

Rejections == {"usage", "empty_agent", "empty_message", "not_found", "send_failed"}

\* C9: every refused or failed send (empty agent id or message, unknown
\* recipient, failed delivery) leaves an entry naming the reason in the log.
C9_RejectionsLogged ==
    \A c \in Callers :
        (proc[c].pc = "done" /\ proc[c].outcome \in Rejections \ {"usage"})
          => \E i \in DOMAIN msgLog :
                /\ msgLog[i].caller = c /\ msgLog[i].n = proc[c].n
                /\ msgLog[i].kind \in {"ERROR_NOT_FOUND", "ERROR_SEND"}

\* C10 as stated: exit status 0 on success, 1 on generic failure, 2 when the
\* target agent is not found (3 on a protocol violation).
C10_ExitStatusDistinguishes ==
    \A c \in Callers :
        proc[c].pc = "done" =>
            /\ proc[c].outcome = "sent" => proc[c].status = 0
            /\ proc[c].outcome = "not_found" => proc[c].status = 2
            /\ proc[c].outcome \in Rejections \ {"not_found"} => proc[c].status = 1

\* C10 amended: exit status 0 on success and 1 on every failure, target not
\* found included; no other status is returned.
C10_ExitStatusZeroOrOne ==
    \A c \in Callers :
        proc[c].pc = "done" =>
            /\ proc[c].status \in {0, 1}
            /\ proc[c].outcome = "sent" => proc[c].status = 0
            /\ proc[c].outcome \in Rejections => proc[c].status = 1

C10_Witness ==
    \E c \in Callers :
        proc[c].pc = "done" /\ proc[c].outcome = "not_found" /\ proc[c].status = 1

----------------------------------------------------------------------------
(* Properties of show_tmux_sessions.sh and unified_dashboard.sh *)

\* the step of create_session that runs tmux new-session, on a name in use
SecondCreate == view.pc = "create" /\ view' # view /\ HasSession(tmux, view.name)

NoDuplicateSession == \A n \in SessionNames : Cardinality(SessionsNamed(tmux, n)) <= 1

AttachedMissing == view.attach = "missing" \/ dash.attach = "missing"

\* an attach request that ended without running tmux attach-session
RefusedByScript(p) == p.pc = "done" /\ p.cmd = "attach" /\ p.attach = "none"

AttachStep == (view.pc = "attach" /\ view' # view) \/ (dash.pc = "attach" /\ dash' # dash)

----------------------------------------------------------------------------
(* Properties of blue_green_deploy.sh *)

\* C5: `deploy` changes the production branch only after staging and the canary
\* test have both succeeded in that run; when either fails the production
\* branch is unchanged and the exit status is 1.
C5_MergeOnlyAfterStageAndCanary ==
    (dep.cmd = "deploy" /\ dep.pc # "idle") =>
        /\ (refs.main # dep.mainAtStart) => (dep.stageOk /\ dep.canaryOk)
        /\ (dep.pc = "done" /\ ~(dep.stageOk /\ dep.canaryOk))
              => (dep.status = 1 /\ refs.main = dep.mainAtStart)

\* C6: no step of blue_green_deploy.sh (stage, test, deploy, rollback, status)
\* creates, kills, renames or types into a tmux session or window.
C6_DeployLeavesTmuxAlone == [][dep' # dep => tmux' = tmux]_vars

C6_Witness ==
    /\ dep.pc = "done" /\ dep.cmd = "deploy" /\ dep.status = 0 /\ dep.note = "warning"
    /\ tmux = ProjectWithAgent

\* C7: after a successful deploy followed by a rollback, the production branch
\* points to the commit it pointed to right before that deploy.
C7_RollbackRestoresPreviousMain ==
    (dep.pc = "done" /\ dep.cmd = "rollback" /\ dep.status = 0
       /\ dep.prevDeployMain # NoCommit)
      => refs.main = dep.prevDeployMain

\* C8: rollback without a saved deployment state fails with "No deployment
\* state found. Cannot rollback." and checks out, resets and pushes nothing.
C8_RollbackWithoutStateChangesNothing ==
    [][(dep.pc = "rb_verify" /\ ~stateFile /\ dep' # dep) =>
          /\ dep'.pc = "done" /\ dep'.status = 1
          /\ dep'.err = "No deployment state found. Cannot rollback."
          /\ UNCHANGED <<commits, refs, head, stateFile>>]_vars

C8_Witness ==
    /\ dep.pc = "done" /\ dep.cmd = "rollback" /\ ~stateFile /\ dep.status = 1
    /\ dep.err = "No deployment state found. Cannot rollback."

----------------------------------------------------------------------------
(* Properties of the HealthMonitor / GapDetector *)

\* the gap events recorded so far are all still there, flags aside
GapsRetained ==
    /\ Len(health'.gaps) >= Len(health.gaps)
    /\ \A i \in DOMAIN health.gaps :
          /\ health'.gaps[i].workerId = health.gaps[i].workerId
          /\ health'.gaps[i].detectedAt = health.gaps[i].detectedAt
          /\ health'.gaps[i].durationSeconds = health.gaps[i].durationSeconds

\* a resolved flag changes only from FALSE to TRUE, in a step in which the
\* worker has activity and is Running afterwards
ResolvedOnlyOnReturn ==
    \A i \in DOMAIN health.gaps :
        health'.gaps[i].resolved # health.gaps[i].resolved =>
            /\ health'.gaps[i].resolved
            /\ health'.state[health.gaps[i].workerId] = "Running"
            /\ health'.lastHeartbeat[health.gaps[i].workerId] = health.now

\* Unresponsive only after T seconds of silence; a gap event only for a worker
\* flagged while Unresponsive; a Running worker has no unresolved gap event
\* and a silent flagged worker has one
GapStates ==
    \A w \in Workers :
        /\ health.state[w] = "Unresponsive" => Silence(health, w) >= T
        /\ health.flagged[w] =>
              /\ health.state[w] = "Unresponsive"
              /\ \E i \in DOMAIN health.gaps :
                    health.gaps[i].workerId = w /\ ~health.gaps[i].resolved
        /\ health.state[w] = "Running" =>
              \A i \in DOMAIN health.gaps :
                  health.gaps[i].workerId = w => health.gaps[i].resolved

----------------------------------------------------------------------------
(* Properties of the Scheduler *)

Scheduled == 1..(sched.nextId - 1)

\* C12: a non-recurring check-in fires exactly once (it has fired as soon as
\* the clock has passed its fire time) and is not pending afterwards; a
\* check-in cancelled before it fired never fires.
C12_NonRecurringFiresOnce ==
    /\ [](\A id \in Scheduled :
            LET c == sched.created[id]
            IN  /\ ~c.recurring =>
                      /\ sched.fired[id] <= 1
                      /\ sched.fired[id] = 1 => id \notin PendingIds(sched)
                      /\ id \in PendingIds(sched) => sched.fired[id] = 0
                      /\ (id \notin sched.cancelled /\ sched.now > c.fireAt)
                            => sched.fired[id] = 1
                      /\ id \in sched.cancelled => sched.fired[id] = 0
                /\ id \in sched.cancelled => id \notin PendingIds(sched))
    /\ [][\A id \in sched.cancelled : sched'.fired[id] = sched.fired[id]]_vars

C12_Witness ==
    \E i, j \in Scheduled :
        /\ ~sched.created[i].recurring /\ ~sched.created[j].recurring
        /\ sched.fired[i] = 1 /\ i \notin PendingIds(sched)
        /\ j \in sched.cancelled /\ sched.fired[j] = 0
        /\ sched.now > sched.created[j].fireAt

----------------------------------------------------------------------------
(* Properties of monitor_agents.sh *)

\* the command line consists of interval options only
RECURSIVE OnlyIntervalOptions(_)
OnlyIntervalOptions(a) ==
    \/ a = <<>>
    \/ /\ Head(a) \in {<<"-i">>, <<"--interval">>}
       /\ \/ Len(a) = 1
          \/ OnlyIntervalOptions(SubSeq(a, 3, Len(a)))

MonitoringOutput ==
    {"Monitoring agents and resources", "SYSTEM RESOURCES", "agent status",
     "agent activity", "OLLAMA INFORMATION"}

\* C13: monitoring starts only with an interval that is a decimal integer of
\* at least 1; with any other interval (missing, empty, zero, negative,
\* non-numeric) the script prints 'Interval must be a positive integer' and
\* exits 1 without monitoring output.
C13_BadIntervalRejectedWithMessage ==
    /\ (mon.out \cap MonitoringOutput # {}) =>
          (IsDecimal(mon.interval) /\ DecimalValue(mon.interval) >= 1)
    /\ (/\ mon.pc = "done"
        /\ OnlyIntervalOptions(mon.argv)
        /\ ~(IsDecimal(mon.interval) /\ DecimalValue(mon.interval) >= 1))
         => /\ "Interval must be a positive integer" \in mon.out
            /\ mon.status = 1
            /\ mon.out \cap MonitoringOutput = {}

\* C14: once started, the monitor keeps refreshing until it is interrupted; a
\* section that cannot be shown prints an error and the loop goes on.
C14_RefreshesUntilInterrupted ==
    (mon.pc = "done" /\ "Monitoring agents and resources" \in mon.out)
      => mon.outcome = "interrupted"

----------------------------------------------------------------------------
(* Properties of setup_qwen_orchestrator.sh *)

\* success is reported only after all the steps, in order, and the test
SuccessOnlyAfterAllSteps ==
    setup.reported =>
        /\ setup.done = SetupSteps
        /\ setup.status = 0
        /\ setup.ollama /\ setup.service /\ ModelListed(setup) /\ setup.deps
        /\ setup.dirs /\ setup.configModel # NoModel /\ setup.examples

\* C15 as stated: 'setup completed successfully' is reported only after every
\* step has succeeded in order and the installation test has passed; every
\* other run ends with a non-zero exit status.
C15_SuccessOrNonZero ==
    /\ SuccessOnlyAfterAllSteps
    /\ (setup.pc = "done" /\ ~setup.reported) => setup.status # 0

\* C15 amended: as stated for the runs that install; --help, and --test-only
\* when the test passes, end with status 0 without reporting the setup as
\* completed.
C15_SuccessOrNonZeroWhenInstalling ==
    /\ SuccessOnlyAfterAllSteps
    /\ (setup.pc = "done" /\ ~setup.reported /\ setup.cmd = "install") => setup.status # 0
    /\ (setup.pc = "done" /\ setup.cmd # "install") => ~setup.reported

C15_Witness ==
    /\ setup.pc = "done" /\ setup.reported /\ setup.cmd = "install"
    /\ setup.downloaded = setup.model
    /\ setup.done = SetupSteps

\* C17: with --model M the model downloaded, the model written to the
\* installed qwen_config.json and the model the installation test checks are
\* all M.
C17_ModelUsedThroughout ==
    (setup.cmd = "install" /\ Len(setup.argv) = 2) =>
        /\ setup.downloaded \in {NoModel, setup.argv[2]}
        /\ setup.configModel \in {NoModel, setup.argv[2]}
        /\ setup.tested \in {NoModel, setup.argv[2]}

----------------------------------------------------------------------------
(* Properties of the options of send-qwen-message.sh *)

\* C16: with --help (or -h) as its only argument the script prints the help
\* text and exits 0; with --version as its only argument it prints the version
\* and exits 0.
C16_HelpAndVersionExitZero ==
    \A c \in Callers :
        (/\ proc[c].pc = "done"
         /\ proc[c].argv \in { << <<"--help">> >>, << <<"-h">> >>, << <<"--version">> >> })
          => (proc[c].status = 0 /\ proc[c].outcome = "special")

----------------------------------------------------------------------------
(* Properties of SearchEvent *)

\* the events whose title contains the query, case-insensitively; all of them
\* for a blank query
Matching(evs, q) ==
    IF trim(q) = <<>> THEN evs
    ELSE SelectSeq(evs, LAMBDA e : includes(toLowerCase(e.title), toLowerCase(q)))

\* C18: once the events are fetched and a query is typed, in either order, the
\* displayed list is exactly the events whose title contains the query
\* case-insensitively (all events for a blank query).
C18_DisplayedIsMatching ==
    (search.pc = "mounted" /\ search.fetched /\ search.typed # NotTyped)
      => search.filteredEvents = Matching(ServerEvents, search.typed)

====
